---- MODULE Spec2Model ----
(***************************************************************************)
(* A model of the TTF futures DataStore (src/ttf_futures.py): the calendar *)
(* table built by clean_data and the query operations over it.             *)
(*                                                                         *)
(* Strings are sequences of one-character strings, so that the regular     *)
(* expressions, str.replace, str.upper, int() and the f-strings of the     *)
(* source are computed character by character.  Dates are the integers     *)
(* YYYYMMDD (their order is the order of the timestamps pd.to_datetime     *)
(* yields), the '%Y-%m' string of a contract month is the integer YYYYMM   *)
(* (its order is the lexicographic order of the strings).                  *)
(***************************************************************************)
EXTENDS Integers, Sequences, FiniteSets, TLC

VARIABLES df, tieOrder, pc, call, res, pin, threads

vars == <<df, tieOrder, pc, call, res, pin, threads>>

(***************************************************************************)
(* Bounds of the model.                                                    *)
(***************************************************************************)
\* The longest calendar table loaded.
MaxRows == 2

\* The largest sequence number passed to query_generic/query_monthly_generic.
MaxSeq == 3

(***************************************************************************)
(* Characters and strings.                                                 *)
(***************************************************************************)
DigitChars == <<"0", "1", "2", "3", "4", "5", "6", "7", "8", "9">>

UpperChars == <<"A", "B", "C", "D", "E", "F", "G", "H", "I", "J", "K", "L", "M",
                "N", "O", "P", "Q", "R", "S", "T", "U", "V", "W", "X", "Y", "Z">>

LowerChars == <<"a", "b", "c", "d", "e", "f", "g", "h", "i", "j", "k", "l", "m",
                "n", "o", "p", "q", "r", "s", "t", "u", "v", "w", "x", "y", "z">>

Range(s) == {s[i] : i \in DOMAIN s}

IndexOf(s, c) == CHOOSE i \in DOMAIN s : s[i] = c

\* The classes \d, [A-Z] and [A-Za-z] of the regular expressions.
Digits == Range(DigitChars)

Uppers == Range(UpperChars)

Letters == Range(UpperChars) \cup Range(LowerChars)

\* str.upper() on one character.
UpperChar(c) == IF c \in Range(LowerChars) THEN UpperChars[IndexOf(LowerChars, c)] ELSE c

\* str.upper().
StrUpper(s) == [i \in DOMAIN s |-> UpperChar(s[i])]

\* s[i:] of Python, i counted from 1 here.
Drop(s, i) == SubSeq(s, i, Len(s))

\* Whether p occurs in s at position i.
OccursAt(s, i, p) == i + Len(p) - 1 <= Len(s) /\ SubSeq(s, i, i + Len(p) - 1) = p

\* str.startswith.
StartsWith(s, p) == OccursAt(s, 1, p)

\* The length of the longest run of characters of the set chars at the head of s.
RECURSIVE RunLen(_, _)
RunLen(s, chars) ==
  IF s # <<>> /\ s[1] \in chars THEN 1 + RunLen(Tail(s), chars) ELSE 0

\* int() of a non-empty string of decimal digits.
RECURSIVE ParseInt(_)
ParseInt(s) ==
  IF s = <<>> THEN 0
  ELSE 10 * ParseInt(SubSeq(s, 1, Len(s) - 1)) + (IndexOf(DigitChars, s[Len(s)]) - 1)

\* str() of a natural number.
RECURSIVE NatStr(_)
NatStr(n) ==
  IF n < 10 THEN <<DigitChars[n + 1]>>
  ELSE NatStr(n \div 10) \o <<DigitChars[(n % 10) + 1]>>

\* str() of an integer, as an f-string formats it.
IntStr(n) == IF n < 0 THEN <<"-">> \o NatStr(-n) ELSE NatStr(n)

\* str.replace(old, '') : every non-overlapping occurrence, left to right.
RECURSIVE ReplaceAll(_, _)
ReplaceAll(s, old) ==
  IF s = <<>> THEN <<>>
  ELSE IF OccursAt(s, 1, old) THEN ReplaceAll(Drop(s, Len(old) + 1), old)
  ELSE <<s[1]>> \o ReplaceAll(Tail(s), old)

\* str.replace(old, '', 1) : the first occurrence only.
RECURSIVE ReplaceFirst(_, _)
ReplaceFirst(s, old) ==
  IF s = <<>> THEN <<>>
  ELSE IF OccursAt(s, 1, old) THEN Drop(s, Len(old) + 1)
  ELSE <<s[1]>> \o ReplaceFirst(Tail(s), old)

(***************************************************************************)
(* The vocabularies of the source.                                         *)
(***************************************************************************)
\* The source-system prefix of the raw codes.
SourcePrefix == <<"E", "N", "D", "E", "X", ":", ":", "F", ":">>

TFM == <<"T", "F", "M">>

\* The values of month_map, in the order of the dictionary.
MonthNames == <<"January", "February", "March", "April", "May", "June", "July",
                "August", "September", "October", "November", "December">>

\* The keys of parse_contract's month_map, in the order of the dictionary.
MonthCodes == <<"F", "G", "H", "J", "K", "M", "N", "Q", "U", "V", "X", "Z">>

\* The keys of query's and query_spread's month_map, in the order of the dictionary.
MonthAbbrs == << <<"J", "A", "N">>, <<"F", "E", "B">>, <<"M", "A", "R">>,
                 <<"A", "P", "R">>, <<"M", "A", "Y">>, <<"J", "U", "N">>,
                 <<"J", "U", "L">>, <<"A", "U", "G">>, <<"S", "E", "P">>,
                 <<"O", "C", "T">>, <<"N", "O", "V">>, <<"D", "E", "C">> >>

\* month_abbr in month_map
IsMonthAbbr(a) == a \in Range(MonthAbbrs)

\* month_map[month_abbr]
MonthOfAbbr(a) == MonthNames[IndexOf(MonthAbbrs, a)]

\* The null of a column (None, NaN).
Null == "None"

(***************************************************************************)
(* Dates.                                                                  *)
(***************************************************************************)
\* .year of a timestamp
YearOf(d) == d \div 10000

\* strftime('%Y-%m') of a timestamp
StrfYearMonth(d) == d \div 100

\* pd.to_datetime('%Y-%m' string).dt.year
YearOfMonth(ym) == ym \div 100

(***************************************************************************)
(* Loading: parse_contract and clean_data.                                 *)
(***************************************************************************)
\* Whether TFM\<letter><2 digits> stands in the code at position i.
ContractAt(code, i) ==
  /\ i + 6 <= Len(code)
  /\ SubSeq(code, i, i + 2) = TFM
  /\ code[i + 3] = "\\"
  /\ code[i + 4] \in Range(MonthCodes)
  /\ code[i + 5] \in Digits
  /\ code[i + 6] \in Digits

\* re.match(r'.*TFM\\([FGHJKMNQUVXZ])(\d{2})', tfm_code): the greedy .* takes
\* the last place the rest of the pattern matches.  The delivery month is
\* the string '<month> 20<yy>', here the pair of its month and its year.
parse_contract(tfm_code) ==
  LET places == {i \in 1..Len(tfm_code) : ContractAt(tfm_code, i)}
  IN  IF places = {} THEN [month |-> Null, year |-> 0]
      ELSE LET i == CHOOSE j \in places : \A k \in places : k <= j
           IN  [month |-> MonthNames[IndexOf(MonthCodes, tfm_code[i + 4])],
                year  |-> 2000 + ParseInt(SubSeq(tfm_code, i + 5, i + 6))]

\* One row of the table clean_data keeps; idx is the row's index label.
CleanRow(raw, i) ==
  LET code == ReplaceAll(raw.TFM_Code, SourcePrefix)
      dm   == parse_contract(code)
      cm   == StrfYearMonth(raw.contract_month)
  IN  [idx               |-> i - 1,
       TFM_Code          |-> code,
       TFM_Code_original |-> raw.TFM_Code,
       delivery_month    |-> dm,
       contract_month    |-> cm,
       expiry_date       |-> raw.expiry_date,
       month_name        |-> dm.month,
       contract_year     |-> YearOfMonth(cm)]

clean_data(rawRows) == [i \in DOMAIN rawRows |-> CleanRow(rawRows[i], i)]

(***************************************************************************)
(* Data frames: the columns, the rows in their order, and attrs.  attrs is *)
(* the sequence of the values under the key 'metadata' (none or one).      *)
(***************************************************************************)
\* The columns clean_data retains.
CalendarColumns == {"TFM_Code", "TFM_Code_original", "delivery_month",
                    "contract_month", "expiry_date", "month_name", "contract_year"}

\* The columns of the frame query_spread builds.
SpreadColumns == {"spread_code", "contract1_code", "contract1_expiry",
                  "contract2_code", "contract2_expiry", "spread_type"}

\* A frame the call returns; raised is "" for a call that returns.
Frame(columns, rows, attrs) ==
  [raised |-> "", columns |-> columns, rows |-> rows, attrs |-> attrs]

\* pd.DataFrame()
EmptyFrame == Frame({}, <<>>, <<>>)

\* The call ends in an exception instead of a frame.
Raised(exc) == [raised |-> exc, columns |-> {}, rows |-> <<>>, attrs |-> <<>>]

\* DataFrame.empty
IsEmpty(frame) == frame.rows = <<>>

\* Python's slice seq[start:stop] with start and stop counted from 0,
\* negative ones from the end.
Slice(seq, start, stop) ==
  LET n    == Len(seq)
      norm(k) == IF k < 0 THEN (IF k + n < 0 THEN 0 ELSE k + n)
                 ELSE (IF k > n THEN n ELSE k)
  IN  SubSeq(seq, norm(start) + 1, norm(stop))

\* ILocSeq counting the sequence number from 0.
ILocSeq_FromZero(rows, sequence_number) ==
  Slice(rows, sequence_number, sequence_number + 1)

\* rows.iloc[sequence_number-1:sequence_number]
ILocSeq(rows, sequence_number) == Slice(rows, sequence_number - 1, sequence_number)

\* Where r goes into the sorted rows: behind its equals when the sort keeps
\* the order of ties, before them otherwise.
RECURSIVE InsertRow(_, _, _, _)
InsertRow(sorted, r, col, tie) ==
  IF sorted = <<>> THEN <<r>>
  ELSE LET last == sorted[Len(sorted)]
           stay == IF tie = "stable" THEN last[col] <= r[col] ELSE last[col] < r[col]
       IN  IF stay THEN Append(sorted, r)
           ELSE Append(InsertRow(SubSeq(sorted, 1, Len(sorted) - 1), r, col, tie), last)

\* rows.sort_values(col).  The default kind is quicksort, which pandas does
\* not promise to be stable: tie is the order the build gives to equal keys,
\* the order of the rows ("stable") or its reverse ("reversed").
RECURSIVE SortValues(_, _, _)
SortValues(rows, col, tie) ==
  IF rows = <<>> THEN <<>>
  ELSE InsertRow(SortValues(SubSeq(rows, 1, Len(rows) - 1), col, tie),
                 rows[Len(rows)], col, tie)

(***************************************************************************)
(* The point in time of a query: none, a date string, or a pair of them.   *)
(***************************************************************************)
NoPoint == [kind |-> "none", start |-> 0, end |-> 0]

AtDate(d) == [kind |-> "date", start |-> d, end |-> d]

InRange(a, b) == [kind |-> "range", start |-> a, end |-> b]

\* reference_date; only read when a point in time is given.
ReferenceDate(point_in_time) == point_in_time.start

\* PointInTimeFilter without the end of the range.
PointInTimeFilter_OpenEnd(rows, point_in_time) ==
  IF point_in_time.kind = "none" THEN rows
  ELSE SelectSeq(rows, LAMBDA r : r.expiry_date >= ReferenceDate(point_in_time))

\* PointInTimeFilter with > for >=: a contract expiring on the date, or on
\* the start of the range, is filtered out.
PointInTimeFilter_Strict(rows, point_in_time) ==
  IF point_in_time.kind = "range"
    THEN SelectSeq(rows, LAMBDA r : /\ r.expiry_date > point_in_time.start
                                   /\ r.expiry_date <= point_in_time.end)
  ELSE IF point_in_time.kind = "date"
    THEN SelectSeq(rows, LAMBDA r : r.expiry_date > ReferenceDate(point_in_time))
  ELSE rows

\* The rows left by the point-in-time filter at the head of query.
PointInTimeFilter(rows, point_in_time) ==
  IF point_in_time.kind = "range"
    THEN SelectSeq(rows, LAMBDA r : /\ r.expiry_date >= point_in_time.start
                                   /\ r.expiry_date <= point_in_time.end)
  ELSE IF point_in_time.kind = "date"
    THEN SelectSeq(rows, LAMBDA r : r.expiry_date >= ReferenceDate(point_in_time))
  ELSE rows

(***************************************************************************)
(* The regular expressions of query and query_spread.  re.match anchors    *)
(* the pattern at the start of the string only; each parser yields the     *)
(* sequence of its matches, none or one.                                   *)
(***************************************************************************)
\* re.match(r'TFM(\d+)', security)
MatchGeneric(security) ==
  LET rest == Drop(security, 4)
      k    == RunLen(rest, Digits)
  IN  IF StartsWith(security, TFM) /\ k >= 1
        THEN <<[sequence_str |-> SubSeq(rest, 1, k)]>>
      ELSE <<>>

\* re.match(r'TFM([A-Za-z]+)(\d+)', security)
MatchMonthly(security) ==
  LET rest == Drop(security, 4)
      l    == RunLen(rest, Letters)
      k    == RunLen(Drop(rest, l + 1), Digits)
  IN  IF StartsWith(security, TFM) /\ l >= 1 /\ k >= 1
        THEN <<[month_abbr   |-> SubSeq(rest, 1, l),
                sequence_str |-> SubSeq(rest, l + 1, l + k)]>>
      ELSE <<>>

\* re.match(r'TFM([A-Z]{3})([A-Z]{3})(\d+)', spread_code)
MatchSpread(spread_code) ==
  LET rest == Drop(spread_code, 4)
      k    == RunLen(Drop(rest, 7), Digits)
  IN  IF StartsWith(spread_code, TFM) /\ RunLen(rest, Uppers) >= 6 /\ k >= 1
        THEN <<[month1_abbr |-> SubSeq(rest, 1, 3),
                month2_abbr |-> SubSeq(rest, 4, 6),
                seq_num     |-> SubSeq(rest, 7, 6 + k)]>>
      ELSE <<>>

(***************************************************************************)
(* query, for the kinds that read the calendar table itself.               *)
(***************************************************************************)
\* CleanSecurity without the replace: the input is compared as it is.
CleanSecurity_Kept(security) == security

\* security.replace('ENDEX::F:', '', 1)
CleanSecurity(security) == ReplaceFirst(security, SourcePrefix)

\* The branch SecurityType.SPECIFIC.
QuerySpecificKind(result_df, security) ==
  Frame(CalendarColumns,
        SelectSeq(result_df, LAMBDA r : r.TFM_Code = CleanSecurity(security)),
        <<>>)

\* The branch SecurityType.GENERIC, from the match on.
GenericMatched(result_df, tie, match) ==
  IF match # <<>>
    THEN Frame(CalendarColumns,
               ILocSeq(SortValues(result_df, "contract_month", tie),
                       ParseInt(match[1].sequence_str)),
               <<>>)
  ELSE EmptyFrame

\* The branch SecurityType.GENERIC.
QueryGenericKind(result_df, tie, security) ==
  GenericMatched(result_df, tie, MatchGeneric(security))

\* month_info
MonthInfo(month_abbr) ==
  [month_name |-> MonthOfAbbr(month_abbr), month_abbr |-> month_abbr]

\* ValidContracts with >= for >: a contract expiring on the reference date
\* counts as not expired.
ValidContracts_NotStrict(monthly_df, reference_date, tie) ==
  SortValues(SelectSeq(monthly_df, LAMBDA r : r.expiry_date >= reference_date),
             "contract_year", tie)

\* ValidContracts without the sort: the contracts in the order of the table.
ValidContracts_Unsorted(monthly_df, reference_date, tie) ==
  SelectSeq(monthly_df, LAMBDA r : r.expiry_date > reference_date)

\* The contracts of the month that have not expired at the reference date,
\* by contract year.
ValidContracts(monthly_df, reference_date, tie) ==
  SortValues(SelectSeq(monthly_df, LAMBDA r : r.expiry_date > reference_date),
             "contract_year", tie)

\* The notice for the contract of the reference year, when it has expired.
ExpiredNotice(current_year_contract, reference_date) ==
  IF current_year_contract # <<>>
     /\ current_year_contract[1].expiry_date < reference_date
    THEN <<[year        |-> YearOf(reference_date),
            expiry_date |-> current_year_contract[1].expiry_date]>>
  ELSE <<>>

\* metadata['expired_contracts']
ExpiredContracts(monthly_df, reference_date) ==
  ExpiredNotice(SelectSeq(monthly_df,
                          LAMBDA r : r.contract_year = YearOf(reference_date)),
                reference_date)

\* metadata['next_available']
NextAvailable(result) ==
  IF result # <<>>
    THEN <<[year        |-> result[1].contract_year,
            expiry_date |-> result[1].expiry_date]>>
  ELSE <<>>

\* The result for a reference date: the Nth contract that has not expired,
\* with the metadata, or an empty frame when there are fewer.
NthValid(monthly_df, valid_contracts, month_abbr, sequence_number, reference_date) ==
  IF Len(valid_contracts) >= sequence_number
    THEN Frame(CalendarColumns,
               ILocSeq(valid_contracts, sequence_number),
               <<[expired_contracts |-> ExpiredContracts(monthly_df, reference_date),
                  next_available    |->
                    NextAvailable(ILocSeq(valid_contracts, sequence_number)),
                  month_info        |-> MonthInfo(month_abbr)]>>)
  ELSE EmptyFrame

\* The result without a reference date: the Nth contract by year; the code
\* falls through to the last return when there are fewer.
NthSorted(sorted_df, month_abbr, sequence_number) ==
  IF Len(sorted_df) >= sequence_number
    THEN Frame(CalendarColumns, ILocSeq(sorted_df, sequence_number),
               <<[month_info |-> MonthInfo(month_abbr)]>>)
  ELSE EmptyFrame

\* MonthlySelected taking the rows without a reference date in the order of
\* the table, not sorted by year.
MonthlySelected_Unsorted(monthly_df, tie, month_abbr, sequence_number, point_in_time) ==
  IF point_in_time.kind # "none"
    THEN NthValid(monthly_df,
                  ValidContracts(monthly_df, ReferenceDate(point_in_time), tie),
                  month_abbr, sequence_number, ReferenceDate(point_in_time))
  ELSE NthSorted(monthly_df, month_abbr, sequence_number)

\* The branch SecurityType.MONTHLY_GENERIC, from monthly_df on.
MonthlySelected(monthly_df, tie, month_abbr, sequence_number, point_in_time) ==
  IF point_in_time.kind # "none"
    THEN NthValid(monthly_df,
                  ValidContracts(monthly_df, ReferenceDate(point_in_time), tie),
                  month_abbr, sequence_number, ReferenceDate(point_in_time))
  ELSE NthSorted(SortValues(monthly_df, "contract_year", tie),
                 month_abbr, sequence_number)

\* The branch SecurityType.MONTHLY_GENERIC, from the upper-cased month
\* abbreviation and the sequence number on.
MonthlyParsed(result_df, tie, month_abbr, sequence_number, point_in_time) ==
  IF IsMonthAbbr(month_abbr)
    THEN MonthlySelected(
           SelectSeq(result_df, LAMBDA r : r.month_name = MonthOfAbbr(month_abbr)),
           tie, month_abbr, sequence_number, point_in_time)
  ELSE EmptyFrame

\* The branch SecurityType.MONTHLY_GENERIC, from the match on.
MonthlyMatched(result_df, tie, match, point_in_time) ==
  IF match # <<>>
    THEN MonthlyParsed(result_df, tie, StrUpper(match[1].month_abbr),
                       ParseInt(match[1].sequence_str), point_in_time)
  ELSE EmptyFrame

\* The branch SecurityType.MONTHLY_GENERIC.
QueryMonthlyKind(result_df, tie, security, point_in_time) ==
  MonthlyMatched(result_df, tie, MatchMonthly(security), point_in_time)

\* The branches of query that read the calendar table, on the filtered copy;
\* a kind that is none of the enumeration falls to the last return.
QueryFiltered(result_df, tie, security, security_type, point_in_time) ==
  IF security_type = "specific" THEN QuerySpecificKind(result_df, security)
  ELSE IF security_type = "generic" THEN QueryGenericKind(result_df, tie, security)
  ELSE IF security_type = "monthly_generic"
    THEN QueryMonthlyKind(result_df, tie, security, point_in_time)
  ELSE EmptyFrame

\* QueryCalendar matching a specific code in the whole table.
QueryCalendar_SpecificUnfiltered(d, tie, security, security_type, point_in_time) ==
  IF security_type = "specific" THEN QuerySpecificKind(d, security)
  ELSE QueryFiltered(PointInTimeFilter(d, point_in_time), tie, security,
                     security_type, point_in_time)

\* query for the kinds specific, generic and monthly_generic, from the copy
\* of the table on.
QueryCalendar(d, tie, security, security_type, point_in_time) ==
  QueryFiltered(PointInTimeFilter(d, point_in_time), tie, security, security_type,
                point_in_time)

(***************************************************************************)
(* query_spread.                                                           *)
(***************************************************************************)
\* month_order.index(month_full)
MonthIndex(month_full) == IndexOf(MonthNames, month_full) - 1

\* SecondLegYear with < for <=: equal months stay in the year of leg 1.
SecondLegYear_Strict(year1, month1_idx, month2_idx) ==
  IF month2_idx < month1_idx THEN year1 + 1 ELSE year1

\* year2: the next year when month2 is not after month1 in the calendar.
SecondLegYear(year1, month1_idx, month2_idx) ==
  IF month2_idx <= month1_idx THEN year1 + 1 ELSE year1

\* Contract2Candidates without the filter by year: the first row of month2.
Contract2Candidates_AnyYear(d, month2_full, year2) ==
  SelectSeq(d, LAMBDA r : r.month_name = month2_full)

\* contract2_candidates: the rows of self.df of month2 and year2.
Contract2Candidates(d, month2_full, year2) ==
  SelectSeq(SelectSeq(d, LAMBDA r : r.month_name = month2_full),
            LAMBDA r : r.contract_year = year2)

\* f"{month1_abbr}-{month2_abbr}"
SpreadType(month1_abbr, month2_abbr) == month1_abbr \o <<"-">> \o month2_abbr

\* SpreadResult copying the expiry of the first leg into both legs.
SpreadResult_ExpiryOfFirstLeg(spread_code, month1_abbr, month2_abbr, contract1, year2, contract2_candidates) ==
  IF contract2_candidates = <<>> THEN EmptyFrame
  ELSE Frame(SpreadColumns,
             <<[idx              |-> 0,
                spread_code      |-> spread_code,
                contract1_code   |-> contract1.TFM_Code,
                contract1_expiry |-> contract1.expiry_date,
                contract2_code   |-> contract2_candidates[1].TFM_Code,
                contract2_expiry |-> contract1.expiry_date,
                spread_type      |-> SpreadType(month1_abbr, month2_abbr)]>>,
             <<[spread_type |-> SpreadType(month1_abbr, month2_abbr),
                leg1 |-> [code  |-> contract1.TFM_Code,
                          month |-> MonthOfAbbr(month1_abbr),
                          year  |-> contract1.contract_year],
                leg2 |-> [code  |-> contract2_candidates[1].TFM_Code,
                          month |-> MonthOfAbbr(month2_abbr),
                          year  |-> year2]]>>)

\* The frame of the two legs, or an empty one when there is no second leg.
SpreadResult(spread_code, month1_abbr, month2_abbr, contract1, year2, contract2_candidates) ==
  IF contract2_candidates = <<>> THEN EmptyFrame
  ELSE Frame(SpreadColumns,
             <<[idx              |-> 0,
                spread_code      |-> spread_code,
                contract1_code   |-> contract1.TFM_Code,
                contract1_expiry |-> contract1.expiry_date,
                contract2_code   |-> contract2_candidates[1].TFM_Code,
                contract2_expiry |-> contract2_candidates[1].expiry_date,
                spread_type      |-> SpreadType(month1_abbr, month2_abbr)]>>,
             <<[spread_type |-> SpreadType(month1_abbr, month2_abbr),
                leg1 |-> [code  |-> contract1.TFM_Code,
                          month |-> MonthOfAbbr(month1_abbr),
                          year  |-> contract1.contract_year],
                leg2 |-> [code  |-> contract2_candidates[1].TFM_Code,
                          month |-> MonthOfAbbr(month2_abbr),
                          year  |-> year2]]>>)

\* query_spread from the year of the second leg on.
SpreadSecondLeg(d, spread_code, month1_abbr, month2_abbr, contract1, year2) ==
  SpreadResult(spread_code, month1_abbr, month2_abbr, contract1, year2,
               Contract2Candidates(d, MonthOfAbbr(month2_abbr), year2))

\* query_spread from the first leg on; contract1 is the frame of the first leg.
SpreadFirstLeg(d, spread_code, month1_abbr, month2_abbr, contract1) ==
  IF IsEmpty(contract1) THEN EmptyFrame
  ELSE SpreadSecondLeg(d, spread_code, month1_abbr, month2_abbr, contract1.rows[1],
                       SecondLegYear(contract1.rows[1].contract_year,
                                     MonthIndex(MonthOfAbbr(month1_abbr)),
                                     MonthIndex(MonthOfAbbr(month2_abbr))))

\* SpreadMatched asking for the first leg without the point in time.
SpreadMatched_NoPointInTime(d, tie, spread_code, match, point_in_time) ==
  IF match = <<>> THEN EmptyFrame
  ELSE IF ~IsMonthAbbr(match[1].month1_abbr) \/ ~IsMonthAbbr(match[1].month2_abbr)
    THEN EmptyFrame
  ELSE SpreadFirstLeg(d, spread_code, match[1].month1_abbr, match[1].month2_abbr,
                      QueryCalendar(d, tie,
                                    TFM \o match[1].month1_abbr
                                        \o IntStr(ParseInt(match[1].seq_num)),
                                    "monthly_generic", NoPoint))

\* query_spread from the match on.
SpreadMatched(d, tie, spread_code, match, point_in_time) ==
  IF match = <<>> THEN EmptyFrame
  ELSE IF ~IsMonthAbbr(match[1].month1_abbr) \/ ~IsMonthAbbr(match[1].month2_abbr)
    THEN EmptyFrame
  ELSE SpreadFirstLeg(d, spread_code, match[1].month1_abbr, match[1].month2_abbr,
                      QueryCalendar(d, tie,
                                    TFM \o match[1].month1_abbr
                                        \o IntStr(ParseInt(match[1].seq_num)),
                                    "monthly_generic", point_in_time))

query_spread(d, tie, spread_code, point_in_time) ==
  SpreadMatched(d, tie, spread_code, MatchSpread(spread_code), point_in_time)

(***************************************************************************)
(* The public operations.                                                  *)
(***************************************************************************)
\* The values of SecurityType.
SecurityTypes == {"specific", "generic", "monthly_generic", "spread"}

\* isinstance(security_type, str): the kind is a string, and not the None a
\* cleared dropdown passes (a member of SecurityType behaves as its value).
IsStr(security_type) == security_type # Null

\* query with an unknown kind taken for the kind specific.
query_UnknownAsSpecific(d, tie, security, security_type, point_in_time) ==
  IF security_type = "spread" THEN query_spread(d, tie, security, point_in_time)
  ELSE IF security_type \in SecurityTypes
    THEN QueryCalendar(d, tie, security, security_type, point_in_time)
  ELSE QueryCalendar(d, tie, security, "specific", point_in_time)

\* query: SecurityType(security_type) raises ValueError for a string that is
\* no value of the enumeration, before anything else is done; a kind that is
\* no string is not converted and matches no branch.
query(d, tie, security, security_type, point_in_time) ==
  IF IsStr(security_type) /\ security_type \notin SecurityTypes
    THEN Raised("ValueError")
  ELSE IF security_type = "spread" THEN query_spread(d, tie, security, point_in_time)
  ELSE QueryCalendar(d, tie, security, security_type, point_in_time)

query_specific(d, tie, tfm_code) == query(d, tie, tfm_code, "specific", NoPoint)

query_generic(d, tie, sequence_number) ==
  query(d, tie, TFM \o IntStr(sequence_number), "generic", NoPoint)

\* The keys of month_abbr_map, spelled out, in the order of the dictionary.
MonthNameStrs ==
  << <<"J", "a", "n", "u", "a", "r", "y">>,
     <<"F", "e", "b", "r", "u", "a", "r", "y">>,
     <<"M", "a", "r", "c", "h">>,
     <<"A", "p", "r", "i", "l">>,
     <<"M", "a", "y">>,
     <<"J", "u", "n", "e">>,
     <<"J", "u", "l", "y">>,
     <<"A", "u", "g", "u", "s", "t">>,
     <<"S", "e", "p", "t", "e", "m", "b", "e", "r">>,
     <<"O", "c", "t", "o", "b", "e", "r">>,
     <<"N", "o", "v", "e", "m", "b", "e", "r">>,
     <<"D", "e", "c", "e", "m", "b", "e", "r">> >>

\* month_abbr_map.get(month_name, month_name[:3].upper())
MonthAbbrOfName(month_name) ==
  IF month_name \in Range(MonthNameStrs)
    THEN MonthAbbrs[IndexOf(MonthNameStrs, month_name)]
  ELSE StrUpper(Slice(month_name, 0, 3))

\* f"TFM{month_abbr}{sequence_number}": the monthly-generic code of a month
\* abbreviation and a sequence number.
MonthlyCode(month_abbr, sequence_number) ==
  TFM \o month_abbr \o IntStr(sequence_number)

query_monthly_generic(d, tie, month_name, sequence_number) ==
  query(d, tie, MonthlyCode(MonthAbbrOfName(month_name), sequence_number),
        "monthly_generic", NoPoint)

(***************************************************************************)
(* get_spread_prices.  A bar of the intraday data is a record of symbol,   *)
(* Timestamp, Date, Time and the five values; the half of a sum of volumes *)
(* is kept as the fraction it is.                                          *)
(***************************************************************************)
\* The columns get_spread_prices keeps.
PriceColumns == {"Timestamp", "Date", "Time", "OPEN", "HIGH", "LOW", "CLOSE",
                 "VOLUME", "symbol", "spread_code", "spread_type",
                 "contract1_code", "contract2_code"}

\* The bars of leg 2 at the timestamp of a bar of leg 1, in their order.
MatchingBars(bar1, contract2_data) ==
  SelectSeq(contract2_data, LAMBDA b : b.Timestamp = bar1.Timestamp)

\* SpreadBar subtracting the first leg from the second.
SpreadBar_SecondMinusFirst(bar1, bar2, spread_row) ==
  [Timestamp      |-> bar1.Timestamp,
   Date           |-> bar1.Date,
   Time           |-> bar1.Time,
   OPEN           |-> bar2.OPEN - bar1.OPEN,
   HIGH           |-> bar2.HIGH - bar1.HIGH,
   LOW            |-> bar2.LOW - bar1.LOW,
   CLOSE          |-> bar2.CLOSE - bar1.CLOSE,
   VOLUME         |-> [num |-> bar1.VOLUME + bar2.VOLUME, den |-> 2],
   symbol         |-> spread_row.spread_code,
   spread_code    |-> spread_row.spread_code,
   spread_type    |-> spread_row.spread_type,
   contract1_code |-> spread_row.contract1_code,
   contract2_code |-> spread_row.contract2_code]

\* One row of the merged and subtracted frame.
SpreadBar(bar1, bar2, spread_row) ==
  [Timestamp      |-> bar1.Timestamp,
   Date           |-> bar1.Date,
   Time           |-> bar1.Time,
   OPEN           |-> bar1.OPEN - bar2.OPEN,
   HIGH           |-> bar1.HIGH - bar2.HIGH,
   LOW            |-> bar1.LOW - bar2.LOW,
   CLOSE          |-> bar1.CLOSE - bar2.CLOSE,
   VOLUME         |-> [num |-> bar1.VOLUME + bar2.VOLUME, den |-> 2],
   symbol         |-> spread_row.spread_code,
   spread_code    |-> spread_row.spread_code,
   spread_type    |-> spread_row.spread_type,
   contract1_code |-> spread_row.contract1_code,
   contract2_code |-> spread_row.contract2_code]

\* pd.merge(contract1_data, contract2_data, on='Timestamp'): the inner join,
\* in the order of the left keys.
\* The rows the join makes of one bar of leg 1.
JoinedBars(bar1, bars2, spread_row) ==
  [i \in 1..Len(bars2) |-> SpreadBar(bar1, bars2[i], spread_row)]

RECURSIVE MergeOnTimestamp(_, _, _)
MergeOnTimestamp(contract1_data, contract2_data, spread_row) ==
  IF contract1_data = <<>> THEN <<>>
  ELSE JoinedBars(contract1_data[1],
                  MatchingBars(contract1_data[1], contract2_data), spread_row)
         \o MergeOnTimestamp(Tail(contract1_data), contract2_data, spread_row)

\* get_spread_prices from the merged frame on.
PricesMerged(contract1_data, contract2_data, spread_data) ==
  IF contract1_data = <<>> THEN EmptyFrame
  ELSE IF contract2_data = <<>> THEN EmptyFrame
  ELSE IF spread_data = <<>> THEN EmptyFrame
  ELSE Frame(PriceColumns, spread_data, <<>>)

\* get_spread_prices from the bars of the two legs on.
PricesOfLegs(contract1_data, contract2_data, spread_row) ==
  PricesMerged(contract1_data, contract2_data,
               MergeOnTimestamp(contract1_data, contract2_data, spread_row))

\* intraday_data[intraday_data['symbol'] == code]
BarsOf(intraday_data, code) == SelectSeq(intraday_data, LAMBDA b : b.symbol = code)

get_spread_prices(spread_result, intraday_data) ==
  IF IsEmpty(spread_result) \/ "contract1_code" \notin spread_result.columns
    THEN EmptyFrame
  ELSE PricesOfLegs(BarsOf(intraday_data, spread_result.rows[1].contract1_code),
                    BarsOf(intraday_data, spread_result.rows[1].contract2_code),
                    spread_result.rows[1])

(***************************************************************************)
(* The inputs: the rows of the calendar file, and the arguments of the     *)
(* calls.                                                                  *)
(***************************************************************************)
\* Rows of a calendar file (TFM_Code;contract_month;expiry_date): April 2025
\* and 2026, December 2025, June 2026, January 2025, a code that is no
\* contract code, and a second row of code TFM\J25 with another month and an
\* expiry before every other row's.
RawRows ==
  << [TFM_Code |-> <<"E", "N", "D", "E", "X", ":", ":", "F", ":", "T", "F", "M", "\\", "J", "2", "5">>,
      contract_month |-> 20250401, expiry_date |-> 20250415],
     [TFM_Code |-> <<"E", "N", "D", "E", "X", ":", ":", "F", ":", "T", "F", "M", "\\", "J", "2", "6">>,
      contract_month |-> 20260401, expiry_date |-> 20260415],
     [TFM_Code |-> <<"T", "F", "M", "\\", "Z", "2", "5">>,
      contract_month |-> 20251201, expiry_date |-> 20251219],
     [TFM_Code |-> <<"E", "N", "D", "E", "X", ":", ":", "F", ":", "T", "F", "M", "\\", "M", "2", "6">>,
      contract_month |-> 20260601, expiry_date |-> 20260617],
     [TFM_Code |-> <<"E", "N", "D", "E", "X", ":", ":", "F", ":", "T", "F", "M", "\\", "F", "2", "5">>,
      contract_month |-> 20250101, expiry_date |-> 20250131],
     [TFM_Code |-> <<"E", "N", "D", "E", "X", ":", ":", "F", ":", "T", "F", "M", "J", "2", "5">>,
      contract_month |-> 20250401, expiry_date |-> 20250414],
     [TFM_Code |-> <<"T", "F", "M", "\\", "J", "2", "5">>,
      contract_month |-> 20250301, expiry_date |-> 20250110] >>

\* The sequences of at most n different elements of the set S.
RECURSIVE DistinctSeqs(_, _)
DistinctSeqs(S, n) ==
  IF n = 0 THEN {<<>>}
  ELSE LET shorter == DistinctSeqs(S, n - 1)
       IN  shorter \cup UNION {{Append(q, x) : x \in S \ Range(q)} : q \in shorter}

\* The calendar files: at most MaxRows of the rows, in any order.
RawTables == DistinctSeqs(Range(RawRows), MaxRows)

\* The points in time: none, a date, a range of dates.
PointsInTime ==
  {NoPoint, AtDate(20250112), AtDate(20250415), AtDate(20250501),
   InRange(20250131, 20250415)}

\* The codes of the rows, as the file and as the table spell them, and a
\* code of no row.
SpecificCodes ==
  {RawRows[i].TFM_Code : i \in DOMAIN RawRows}
    \cup {ReplaceAll(RawRows[i].TFM_Code, SourcePrefix) : i \in DOMAIN RawRows}
    \cup {SourcePrefix \o ReplaceAll(RawRows[i].TFM_Code, SourcePrefix) :
            i \in DOMAIN RawRows}
    \cup {<<"T", "F", "M", "\\", "K", "2", "5">>}

GenericCodes1 == <<"T", "F", "M", "1">>

MonthlyCodes1 == <<"T", "F", "M", "A", "P", "R", "1">>

GenericCodes ==
  { <<"T", "F", "M", "1">>,
     <<"T", "F", "M", "2">>,
     <<"T", "F", "M", "0">>,
     <<"T", "F", "M", "-", "1">>,
     <<"T", "F", "M", "X">>,
     <<"T", "F", "M", "1", "X">> }

MonthlyCodes ==
  { <<"T", "F", "M", "A", "P", "R", "1">>,
     <<"T", "F", "M", "A", "P", "R", "2">>,
     <<"T", "F", "M", "a", "p", "r", "1">>,
     <<"T", "F", "M", "A", "P", "R", "0">>,
     <<"T", "F", "M", "A", "P", "R", "0", "1">>,
     <<"T", "F", "M", "X", "Y", "Z", "1">>,
     <<"T", "F", "M", "A", "P", "R", "1", "X">>,
     <<"T", "F", "M", "J", "A", "N", "1">>,
     <<"T", "F", "M", "A", "P", "R">> }

SpreadCodes ==
  { <<"T", "F", "M", "D", "E", "C", "J", "U", "N", "1">>,
     <<"T", "F", "M", "A", "P", "R", "A", "P", "R", "1">>,
     <<"T", "F", "M", "J", "A", "N", "A", "P", "R", "1">>,
     <<"T", "F", "M", "A", "P", "R", "J", "A", "N", "1">>,
     <<"T", "F", "M", "D", "E", "C", "J", "U", "N", "0">>,
     <<"T", "F", "M", "X", "Y", "Z", "J", "U", "N", "1">>,
     <<"T", "F", "M", "D", "E", "C", "J", "U", "N", "1", "X">>,
     <<"T", "F", "M", "d", "e", "c", "j", "u", "n", "1">> }

\* The month names passed to query_monthly_generic.
MonthArgs ==
  { <<"A", "p", "r", "i", "l">>,
     <<"D", "e", "c", "e", "m", "b", "e", "r">>,
     <<"A", "p", "r">> }

\* The sequence numbers passed to query_generic and query_monthly_generic.
SeqArgs == -1 .. MaxSeq

\* The codes passed to query with the kind specific.
QueriedCodes ==
  {RawRows[1].TFM_Code, ReplaceAll(RawRows[1].TFM_Code, SourcePrefix),
   RawRows[3].TFM_Code, SourcePrefix \o RawRows[3].TFM_Code}

\* The kinds passed to query: the four of the enumeration, a string that is
\* none of them, and no string at all.
KindTags == SecurityTypes \cup {"future", Null}

\* The securities passed to query with each kind.
SecuritiesOf(security_type) ==
  CASE security_type = "specific" -> QueriedCodes
    [] security_type = "generic" -> GenericCodes \cup {MonthlyCodes1}
    [] security_type = "monthly_generic" -> MonthlyCodes \cup {GenericCodes1}
    [] security_type = "spread" -> SpreadCodes \cup {MonthlyCodes1}
    [] OTHER -> {GenericCodes1, MonthlyCodes1, RawRows[1].TFM_Code}

\* Intraday data: bars of both legs of a spread at one timestamp and of one
\* leg at another; bars of the legs at different timestamps; bars of one leg.
IntradayData ==
  << << [symbol |-> <<"T", "F", "M", "\\", "Z", "2", "5">>, Timestamp |-> 2025011009, Date |-> 20250110, Time |-> 9,
         OPEN |-> 30, HIGH |-> 33, LOW |-> 29, CLOSE |-> 31, VOLUME |-> 10],
        [symbol |-> <<"T", "F", "M", "\\", "M", "2", "6">>, Timestamp |-> 2025011009, Date |-> 20250110, Time |-> 9,
         OPEN |-> 27, HIGH |-> 28, LOW |-> 25, CLOSE |-> 26, VOLUME |-> 5],
        [symbol |-> <<"T", "F", "M", "\\", "Z", "2", "5">>, Timestamp |-> 2025011010, Date |-> 20250110, Time |-> 10,
         OPEN |-> 31, HIGH |-> 35, LOW |-> 30, CLOSE |-> 34, VOLUME |-> 7],
        [symbol |-> <<"T", "F", "M", "\\", "J", "2", "5">>, Timestamp |-> 2025011010, Date |-> 20250110, Time |-> 10,
         OPEN |-> 40, HIGH |-> 41, LOW |-> 39, CLOSE |-> 40, VOLUME |-> 3],
        [symbol |-> <<"T", "F", "M", "\\", "J", "2", "6">>, Timestamp |-> 2025011010, Date |-> 20250110, Time |-> 10,
         OPEN |-> 36, HIGH |-> 38, LOW |-> 35, CLOSE |-> 37, VOLUME |-> 4] >>,
     << [symbol |-> <<"T", "F", "M", "\\", "Z", "2", "5">>, Timestamp |-> 2025011009, Date |-> 20250110, Time |-> 9,
         OPEN |-> 30, HIGH |-> 33, LOW |-> 29, CLOSE |-> 31, VOLUME |-> 10],
        [symbol |-> <<"T", "F", "M", "\\", "M", "2", "6">>, Timestamp |-> 2025011011, Date |-> 20250110, Time |-> 11,
         OPEN |-> 27, HIGH |-> 28, LOW |-> 25, CLOSE |-> 26, VOLUME |-> 5] >>,
     << [symbol |-> <<"T", "F", "M", "\\", "Z", "2", "5">>, Timestamp |-> 2025011009, Date |-> 20250110, Time |-> 9,
         OPEN |-> 30, HIGH |-> 33, LOW |-> 29, CLOSE |-> 31, VOLUME |-> 10] >> >>

\* The spreads whose prices are asked for.
PricedSpreads ==
  { <<"T", "F", "M", "D", "E", "C", "J", "U", "N", "1">>,
    <<"T", "F", "M", "A", "P", "R", "A", "P", "R", "1">>,
    <<"T", "F", "M", "X", "Y", "Z", "J", "U", "N", "1">> }

(***************************************************************************)
(* The state: the table of the DataStore (df), the order the build's sort  *)
(* gives to equal keys (tieOrder), and the caller: the call it made last   *)
(* and the result it holds (call, res, while pc = "done"), and a result    *)
(* of an earlier call it kept to compare (pin), with whether other calls   *)
(* ran since.                                                              *)
(***************************************************************************)
CallOf(op, security, security_type, point_in_time, n) ==
  [op |-> op, security |-> security, security_type |-> security_type,
   point_in_time |-> point_in_time, sequence_number |-> n]

NoCall == CallOf("none", <<>>, "", NoPoint, 0)

\* TableAfter for a query that sorts self.df itself, without the copy.
TableAfter_SortedInPlace(d, op) ==
  IF op \in {"query", "query_generic"}
    THEN SortValues(d, "contract_month", "stable")
  ELSE d

\* self.df after a query: query works on result_df, a copy, and query_spread
\* on selections of self.df; nothing assigns to self.df or its rows.
TableAfter(d, op) == d

\* The operations a caller has.
Operations == {"query", "query_spread", "query_specific", "query_generic",
               "query_monthly_generic", "get_spread_prices"}

\* What the call c returns on the table d.
ResultOf(d, tie, c) ==
  CASE c.op = "query" ->
         query(d, tie, c.security, c.security_type, c.point_in_time)
    [] c.op = "query_spread" ->
         query_spread(d, tie, c.security, c.point_in_time)
    [] c.op = "query_specific" ->
         query_specific(d, tie, c.security)
    [] c.op = "query_generic" ->
         query_generic(d, tie, c.sequence_number)
    [] c.op = "query_monthly_generic" ->
         query_monthly_generic(d, tie, c.security, c.sequence_number)
    [] c.op = "get_spread_prices" ->
         get_spread_prices(query(d, tie, c.security, "spread", c.point_in_time),
                           IntradayData[c.sequence_number])

\* The threads that serve the callbacks of the application at the same time.
Callers == {"first", "second"}

\* A thread that serves no callback.
IdleThread ==
  [stage |-> "idle", call |-> NoCall, copy |-> <<>>, leg |-> EmptyFrame,
   res |-> EmptyFrame, interleaved |-> FALSE]

Init ==
  /\ df \in {clean_data(t) : t \in RawTables}
  /\ tieOrder \in {"stable", "reversed"}
  /\ pc = "idle"
  /\ call = NoCall
  /\ res = EmptyFrame
  /\ pin = <<>>
  /\ threads = [t \in Callers |-> IdleThread]

\* The caller made the call c and holds its result.
Hold(c, result) ==
  /\ call' = c
  /\ res' = result
  /\ df' = TableAfter(df, c.op)
  /\ pc' = "done"

Query ==
  /\ pc = "idle" /\ pin = <<>>
  /\ \E security_type \in KindTags, p \in PointsInTime :
       \E security \in SecuritiesOf(security_type) :
         Hold(CallOf("query", security, security_type, p, 0),
              query(df, tieOrder, security, security_type, p))
  /\ UNCHANGED <<tieOrder, pin, threads>>

QuerySpread ==
  /\ pc = "idle" /\ pin = <<>>
  /\ \E spread_code \in SpreadCodes, p \in PointsInTime :
       Hold(CallOf("query_spread", spread_code, "", p, 0),
            query_spread(df, tieOrder, spread_code, p))
  /\ UNCHANGED <<tieOrder, pin, threads>>

QuerySpecific ==
  /\ pc = "idle" /\ pin = <<>>
  /\ \E tfm_code \in SpecificCodes :
       Hold(CallOf("query_specific", tfm_code, "", NoPoint, 0),
            query_specific(df, tieOrder, tfm_code))
  /\ UNCHANGED <<tieOrder, pin, threads>>

QueryGeneric ==
  /\ pc = "idle" /\ pin = <<>>
  /\ \E n \in SeqArgs :
       Hold(CallOf("query_generic", <<>>, "", NoPoint, n),
            query_generic(df, tieOrder, n))
  /\ UNCHANGED <<tieOrder, pin, threads>>

QueryMonthlyGeneric ==
  /\ pc = "idle" /\ pin = <<>>
  /\ \E month_name \in MonthArgs, n \in SeqArgs :
       Hold(CallOf("query_monthly_generic", month_name, "", NoPoint, n),
            query_monthly_generic(df, tieOrder, month_name, n))
  /\ UNCHANGED <<tieOrder, pin, threads>>

\* The prices are asked for the result of a spread query.
GetSpreadPrices ==
  /\ pc = "idle" /\ pin = <<>>
  /\ \E spread_code \in PricedSpreads, p \in {NoPoint, AtDate(20250112)},
        k \in DOMAIN IntradayData :
       Hold(CallOf("get_spread_prices", spread_code, "", p, k),
            get_spread_prices(query(df, tieOrder, spread_code, "spread", p),
                              IntradayData[k]))
  /\ UNCHANGED <<tieOrder, pin, threads>>

\* The caller drops the result it holds.
Return ==
  /\ pc = "done"
  /\ pc' = "idle"
  /\ call' = NoCall
  /\ res' = EmptyFrame
  /\ UNCHANGED <<df, tieOrder, pin, threads>>

Next ==
  \/ Query
  \/ QuerySpread
  \/ QuerySpecific
  \/ QueryGeneric
  \/ QueryMonthlyGeneric
  \/ GetSpreadPrices
  \/ Return

Spec == Init /\ [][Next]_vars

(***************************************************************************)
(* The same calls, with a caller that keeps one result, lets other calls   *)
(* run, and makes the kept call again.                                     *)
(***************************************************************************)
\* The caller keeps the call and the result it holds.
Keep ==
  /\ pc = "done" /\ pin = <<>>
  /\ pin' = <<[call |-> call, res |-> res, between |-> FALSE]>>
  /\ pc' = "idle"
  /\ call' = NoCall
  /\ res' = EmptyFrame
  /\ UNCHANGED <<df, tieOrder, threads>>

\* Another call runs and its result is dropped at once.
Between ==
  /\ pc = "idle" /\ pin # <<>>
  /\ \E op \in Operations : df' = TableAfter(df, op)
  /\ pin' = <<[pin[1] EXCEPT !.between = TRUE]>>
  /\ UNCHANGED <<tieOrder, pc, call, res, threads>>

\* The kept call is made again.
Again ==
  /\ pc = "idle" /\ pin # <<>>
  /\ Hold(pin[1].call, ResultOf(df, tieOrder, pin[1].call))
  /\ UNCHANGED <<tieOrder, pin, threads>>

NextAgain ==
  \/ Query
  \/ QuerySpread
  \/ QuerySpecific
  \/ QueryGeneric
  \/ QueryMonthlyGeneric
  \/ GetSpreadPrices
  \/ Return
  \/ Keep
  \/ Between
  \/ Again

SpecAgain == Init /\ [][NextAgain]_vars

(***************************************************************************)
(* The callbacks of the application served by several threads at a time.   *)
(* A thread runs datastore.query in steps, one for each read of self.df:   *)
(* the copy at the head of query, and for a spread the copy of the query   *)
(* for the first leg and the lookup of the second leg.  Of a thread,       *)
(* copy is the table it read first, leg the first leg it found, res the    *)
(* result it holds at the end, and interleaved says whether another        *)
(* thread took a step while its query ran.                                 *)
(***************************************************************************)
\* The queries of update_main_graph (kind and code of the form, date of the
\* date picker) and of update_spread_graph (a spread of the dropdown).
CallbackCalls ==
  { CallOf("query", RawRows[3].TFM_Code, "specific", AtDate(20250112), 0),
    CallOf("query", GenericCodes1, "generic", AtDate(20250112), 0),
    CallOf("query", MonthlyCodes1, "monthly_generic", AtDate(20250501), 0),
    CallOf("query", <<"T", "F", "M", "D", "E", "C", "J", "U", "N", "1">>, "spread",
           AtDate(20250112), 0),
    CallOf("query", <<"T", "F", "M", "A", "P", "R", "A", "P", "R", "1">>, "spread",
           AtDate(20250112), 0) }

\* The thread t goes on as rec; the queries of the other threads that are
\* running have been interleaved with its step.
Step(t, rec) ==
  threads' = [u \in Callers |->
                IF u = t THEN rec
                ELSE IF threads[u].stage \in {"copied", "leg1"}
                  THEN [threads[u] EXCEPT !.interleaved = TRUE]
                ELSE threads[u]]

\* A callback calls datastore.query, which copies self.df.
Begin(t) ==
  /\ threads[t].stage = "idle"
  /\ \E c \in CallbackCalls :
       Step(t, [stage |-> "copied", call |-> c, copy |-> df, leg |-> EmptyFrame,
                res |-> EmptyFrame, interleaved |-> FALSE])
  /\ df' = TableAfter(df, "query")
  /\ UNCHANGED <<tieOrder, pc, call, res, pin>>

\* query filters and searches its copy, and returns.
Finish(t) ==
  /\ threads[t].stage = "copied"
  /\ threads[t].call.security_type # "spread"
  /\ Step(t, [threads[t] EXCEPT
               !.stage = "done",
               !.res = QueryFiltered(
                         PointInTimeFilter(threads[t].copy, threads[t].call.point_in_time),
                         tieOrder, threads[t].call.security,
                         threads[t].call.security_type,
                         threads[t].call.point_in_time)])
  /\ UNCHANGED <<df, tieOrder, pc, call, res, pin>>

\* query_spread asks query for the first leg, which copies self.df again.
FirstLeg(t) ==
  /\ threads[t].stage = "copied"
  /\ threads[t].call.security_type = "spread"
  /\ Step(t, [threads[t] EXCEPT
               !.stage = "leg1",
               !.leg = QueryCalendar(
                         df, tieOrder,
                         MonthlyCode(MatchSpread(threads[t].call.security)[1].month1_abbr,
                                     ParseInt(MatchSpread(threads[t].call.security)[1].seq_num)),
                         "monthly_generic", threads[t].call.point_in_time)])
  /\ df' = TableAfter(df, "query")
  /\ UNCHANGED <<tieOrder, pc, call, res, pin>>

\* query_spread looks the second leg up in self.df, and returns.
SecondLeg(t) ==
  /\ threads[t].stage = "leg1"
  /\ Step(t, [threads[t] EXCEPT
               !.stage = "done",
               !.res = SpreadFirstLeg(
                         df, threads[t].call.security,
                         MatchSpread(threads[t].call.security)[1].month1_abbr,
                         MatchSpread(threads[t].call.security)[1].month2_abbr,
                         threads[t].leg)])
  /\ UNCHANGED <<df, tieOrder, pc, call, res, pin>>

\* The callback has drawn its figure of the result.
Collect(t) ==
  /\ threads[t].stage = "done"
  /\ Step(t, IdleThread)
  /\ UNCHANGED <<df, tieOrder, pc, call, res, pin>>

NextThreads ==
  \E t \in Callers :
    \/ Begin(t)
    \/ Finish(t)
    \/ FirstLeg(t)
    \/ SecondLeg(t)
    \/ Collect(t)

SpecThreads == Init /\ [][NextThreads]_vars

(***************************************************************************)
(* The construction of the DataStore: the table is read from a file and    *)
(* cleaned.                                                                *)
(***************************************************************************)
\* Codes of the rows of a file: contract codes with and without the source
\* prefix, with a year before 2010, with another prefix, with two codes in a
\* row; a letter that is no month code, no backslash, one year digit, four
\* year digits, a small month letter.
LoadCodes ==
  { <<"E", "N", "D", "E", "X", ":", ":", "F", ":", "T", "F", "M", "\\", "J", "2", "5">>,
    <<"T", "F", "M", "\\", "Z", "2", "6">>,
    <<"T", "F", "M", "\\", "F", "0", "7">>,
    <<"X", "T", "F", "M", "\\", "K", "2", "5">>,
    <<"T", "F", "M", "\\", "J", "2", "5", "T", "F", "M", "\\", "K", "2", "6">>,
    <<"T", "F", "M", "\\", "A", "2", "5">>,
    <<"T", "F", "M", "J", "2", "5">>,
    <<"T", "F", "M", "\\", "J", "2">>,
    <<"T", "F", "M", "\\", "J", "2", "0", "2", "5">>,
    <<"T", "F", "M", "\\", "j", "2", "5">> }

LoadRows ==
  {[TFM_Code |-> c, contract_month |-> 20250401, expiry_date |-> 20250415] :
     c \in LoadCodes}

\* The files: at most MaxRows of the rows, in any order.
LoadTables == DistinctSeqs(LoadRows, MaxRows)

\* Before __init__ has read the file.
InitLoad ==
  /\ df = <<>>
  /\ tieOrder \in {"stable", "reversed"}
  /\ pc = "new"
  /\ call = NoCall
  /\ res = EmptyFrame
  /\ pin = <<>>
  /\ threads = [t \in Callers |-> IdleThread]

\* __init__: self.df = pd.read_csv(csv_file); self.df = self.clean_data()
Load ==
  /\ pc = "new"
  /\ \E t \in LoadTables : df' = clean_data(t)
  /\ pc' = "idle"
  /\ UNCHANGED <<tieOrder, call, res, pin, threads>>

SpecLoad == InitLoad /\ [][Load]_vars

(***************************************************************************)
(* The claims.                                                             *)
(***************************************************************************)
\* The caller holds the result of query with the kind k.
Queried(k) == pc = "done" /\ call.op = "query" /\ call.security_type = k

\* The caller holds the result of a spread query.
SpreadQueried == Queried("spread") \/ (pc = "done" /\ call.op = "query_spread")

\* The rows of the table of the month and the code c.
RowsOfMonth(month_name) == SelectSeq(df, LAMBDA r : r.month_name = month_name)

RowsOfCode(c) == SelectSeq(df, LAMBDA r : r.TFM_Code = c)

\* The grammar of the references: TFM<N>, TFM<Mon><N>, TFM<Mon1><Mon2><N>,
\* N a positive integer, the whole string.
IsNumber(s) == s # <<>> /\ \A i \in DOMAIN s : s[i] \in Digits

IsGenericRef(s) ==
  StartsWith(s, TFM) /\ IsNumber(Drop(s, 4)) /\ ParseInt(Drop(s, 4)) >= 1

IsMonthlyRef(s) ==
  /\ StartsWith(s, TFM) /\ Len(s) >= 6
  /\ IsMonthAbbr(StrUpper(SubSeq(s, 4, 6)))
  /\ IsNumber(Drop(s, 7)) /\ ParseInt(Drop(s, 7)) >= 1

IsSpreadRef(s) ==
  /\ StartsWith(s, TFM) /\ Len(s) >= 9
  /\ IsMonthAbbr(SubSeq(s, 4, 6)) /\ IsMonthAbbr(SubSeq(s, 7, 9))
  /\ IsNumber(Drop(s, 10)) /\ ParseInt(Drop(s, 10)) >= 1

IsRef(k, s) ==
  CASE k = "generic" -> IsGenericRef(s)
    [] k = "monthly_generic" -> IsMonthlyRef(s)
    [] k = "spread" -> IsSpreadRef(s)

\* The month and the sequence number of a monthly-generic reference.
MonthOfRef(s) == MonthOfAbbr(StrUpper(SubSeq(s, 4, 6)))

SeqOfRef(s) == ParseInt(Drop(s, 7))

\* C1: a monthly-generic query with a point in time t (the date, or the start
\* of the range) returns no contract whose expiry_date is on or before t:
\* every returned row has expiry_date > t.
C1_NoExpiredContract ==
  (Queried("monthly_generic") /\ call.point_in_time.kind # "none")
    => \A i \in DOMAIN res.rows :
         res.rows[i].expiry_date > ReferenceDate(call.point_in_time)

\* A monthly-generic query at t returned a contract while the table holds a
\* contract of that month that expires on t itself.
C1_Witness ==
  /\ Queried("monthly_generic") /\ call.point_in_time.kind = "date"
  /\ res.rows # <<>>
  /\ \E i \in DOMAIN df :
       /\ df[i].month_name = res.rows[1].month_name
       /\ df[i].expiry_date = ReferenceDate(call.point_in_time)

\* C2: for a monthly-generic query with a single date t that returns the n-th
\* unexpired contract: when the table holds a contract of the month whose
\* contract_year is the year of t and whose expiry_date is before t, the
\* metadata lists it as expired with its year and expiry date; when it
\* holds none, the metadata carries no expired notice.
C2_ExpiredNotice ==
  (/\ Queried("monthly_generic") /\ call.point_in_time.kind = "date"
   /\ IsMonthlyRef(call.security) /\ res.rows # <<>>)
    => LET t       == ReferenceDate(call.point_in_time)
           expired == SelectSeq(RowsOfMonth(MonthOfRef(call.security)),
                                LAMBDA r : r.contract_year = YearOf(t)
                                           /\ r.expiry_date < t)
       IN  /\ res.attrs # <<>>
           /\ \A i \in DOMAIN expired :
                [year |-> YearOf(t), expiry_date |-> expired[i].expiry_date]
                  \in Range(res.attrs[1].expired_contracts)
           /\ expired = <<>> => res.attrs[1].expired_contracts = <<>>

\* C3: in every non-empty spread result the legs are rows of the table, and
\* the contract_year of leg 2 is that of leg 1 plus one when the index of
\* month2 is at most that of month1, and that of leg 1 otherwise.
C3_SecondLegYear ==
  (SpreadQueried /\ res.rows # <<>>)
    => LET m == res.attrs[1]
       IN  /\ m.leg2.year = IF MonthIndex(m.leg2.month) <= MonthIndex(m.leg1.month)
                              THEN m.leg1.year + 1
                            ELSE m.leg1.year
           /\ \E i \in DOMAIN df :
                /\ df[i].TFM_Code = res.rows[1].contract1_code
                /\ df[i].expiry_date = res.rows[1].contract1_expiry
                /\ df[i].month_name = m.leg1.month
                /\ df[i].contract_year = m.leg1.year
           /\ \E i \in DOMAIN df :
                /\ df[i].TFM_Code = res.rows[1].contract2_code
                /\ df[i].expiry_date = res.rows[1].contract2_expiry
                /\ df[i].month_name = m.leg2.month
                /\ df[i].contract_year = m.leg2.year

\* A spread of twice the same month was resolved.
C3_Witness ==
  /\ SpreadQueried /\ res.rows # <<>>
  /\ res.attrs[1].leg1.month = res.attrs[1].leg2.month

\* Whether query's own parser takes the string for a reference of the kind.
Parses(k, s) ==
  CASE k = "generic" -> MatchGeneric(s) # <<>>
    [] k = "monthly_generic" ->
         MatchMonthly(s) # <<>> /\ IsMonthAbbr(StrUpper(MatchMonthly(s)[1].month_abbr))
    [] k = "spread" ->
         /\ MatchSpread(s) # <<>>
         /\ IsMonthAbbr(MatchSpread(s)[1].month1_abbr)
         /\ IsMonthAbbr(MatchSpread(s)[1].month2_abbr)

\* C4: for the kinds generic, monthly_generic and spread, what query returns
\* for a string that does not parse as a reference of the kind differs from
\* what it returns, on the same table and point in time, for a reference of
\* the kind that no row qualifies for.
C4_MalformedDistinct ==
  \A k \in {"generic", "monthly_generic", "spread"} :
    (Queried(k) /\ ~Parses(k, call.security))
      => \A s \in SecuritiesOf(k) :
           (/\ IsRef(k, s)
            /\ IsEmpty(query(df, tieOrder, s, k, call.point_in_time)))
             => query(df, tieOrder, s, k, call.point_in_time) # res

\* C5: for every code c of the table, query_specific(c) and
\* query_specific("ENDEX::F:" + c) both return the rows of code c and
\* nothing else.
C5_SpecificByCode ==
  (pc = "done" /\ call.op = "query_specific")
    => \A i \in DOMAIN df :
         call.security \in {df[i].TFM_Code, SourcePrefix \o df[i].TFM_Code}
           => res = Frame(CalendarColumns, RowsOfCode(df[i].TFM_Code), <<>>)

\* query_specific was given a code with the prefix and returned its one row.
C5_Witness ==
  /\ pc = "done" /\ call.op = "query_specific"
  /\ StartsWith(call.security, SourcePrefix)
  /\ Len(res.rows) = 1
  /\ res.rows[1].TFM_Code = Drop(call.security, Len(SourcePrefix) + 1)

C7_NonPositiveIsMalformed ==
  (pc = "done" /\ call.op = "query_generic" /\ call.sequence_number <= 0)
    => /\ res = query(df, tieOrder, <<"T", "F", "M", "X">>, "generic", NoPoint)
       /\ res # query_generic(df, tieOrder, Len(df) + 1)

\* C8: for a table, a month and a point in time, the contract_year of the
\* monthly-generic result does not decrease with the sequence number: the
\* result for n is of a year not after that of the result for any m > n.
C8_YearMonotonic ==
  (/\ Queried("monthly_generic") /\ call.point_in_time.kind # "none"
   /\ IsMonthlyRef(call.security) /\ res.rows # <<>>)
    => \A m \in (SeqOfRef(call.security) + 1) .. (Len(df) + 1) :
         LET later == query(df, tieOrder,
                            SubSeq(call.security, 1, 6) \o IntStr(m),
                            "monthly_generic", call.point_in_time)
         IN  later.rows # <<>>
               => res.rows[1].contract_year <= later.rows[1].contract_year

\* The first contract of a month was asked for at a point in time, on a
\* table that holds a later year of the month before an earlier one, both
\* unexpired.
C8_Witness ==
  /\ Queried("monthly_generic") /\ call.point_in_time.kind # "none"
  /\ IsMonthlyRef(call.security) /\ SeqOfRef(call.security) = 1
  /\ res.rows # <<>>
  /\ \E i, j \in DOMAIN df :
       /\ i < j
       /\ df[i].month_name = res.rows[1].month_name
       /\ df[j].month_name = res.rows[1].month_name
       /\ df[i].contract_year > df[j].contract_year
       /\ df[j].expiry_date > ReferenceDate(call.point_in_time)

C10_TableUnchanged == [][df' = df]_vars

\* Prices were computed, after a kept call and calls in between, on a table
\* whose rows are not in the order of their months.
C10_Witness ==
  /\ pc = "done" /\ pin # <<>> /\ pin[1].between
  /\ call.op = "get_spread_prices" /\ res.rows # <<>>
  /\ \E i, j \in DOMAIN df : i < j /\ df[i].contract_month > df[j].contract_month

C12_AlwaysReturns ==
  (pc = "done" /\ call.op = "query") => res.raised = ""

\* Whether the row r is inside the point in time p: expiry_date >= t for a
\* date t, start <= expiry_date <= end for a range.
InWindow(r, p) ==
  IF p.kind = "range" THEN r.expiry_date >= p.start /\ r.expiry_date <= p.end
  ELSE r.expiry_date >= p.start

\* C13: a generic query for n with a point in time returns the n-th row by
\* contract_month among the rows inside the point in time (one of them, with
\* fewer than n of them of an earlier month and at least n of its month or
\* an earlier one), and an empty result when fewer than n rows are inside.
C13_GenericAtPointInTime ==
  (/\ Queried("generic") /\ call.point_in_time.kind # "none"
   /\ IsGenericRef(call.security))
    => LET n    == ParseInt(Drop(call.security, 4))
           cand == {i \in DOMAIN df : InWindow(df[i], call.point_in_time)}
       IN  IF n <= Cardinality(cand)
             THEN /\ Len(res.rows) = 1
                  /\ \E i \in cand : df[i] = res.rows[1]
                  /\ Cardinality({i \in cand : df[i].contract_month
                                                 < res.rows[1].contract_month}) < n
                  /\ Cardinality({i \in cand : df[i].contract_month
                                                 <= res.rows[1].contract_month}) >= n
           ELSE res.rows = <<>>

\* A generic query at a date returned a contract that expires on that date,
\* from a table that holds an earlier month that had expired by then.
C13_Witness ==
  /\ Queried("generic") /\ call.point_in_time.kind = "date"
  /\ IsGenericRef(call.security)
  /\ res.rows # <<>>
  /\ res.rows[1].expiry_date = ReferenceDate(call.point_in_time)
  /\ \E i \in DOMAIN df :
       /\ df[i].contract_month < res.rows[1].contract_month
       /\ df[i].expiry_date < ReferenceDate(call.point_in_time)

\* The caller holds the result of a monthly-generic query without a point in
\* time for the month month_name and the sequence number n >= 1, made through
\* query or through query_monthly_generic.
MonthlyNoPoint(month_name, n) ==
  /\ pc = "done" /\ n >= 1
  /\ \/ /\ Queried("monthly_generic") /\ call.point_in_time.kind = "none"
        /\ IsMonthlyRef(call.security)
        /\ MonthOfRef(call.security) = month_name
        /\ SeqOfRef(call.security) = n
     \/ /\ call.op = "query_monthly_generic"
        /\ call.security \in Range(MonthNameStrs)
        /\ MonthNames[IndexOf(MonthNameStrs, call.security)] = month_name
        /\ call.sequence_number = n

FirstLegQuery(s, p) ==
  query(df, tieOrder, SubSeq(s, 1, 6) \o Drop(s, 10), "monthly_generic", p)

\* C15: for every spread query (month1, month2, n, t), leg 1 of a non-empty
\* result is the contract the monthly-generic query (month1, n, t) returns
\* (its code, its expiry date, its month and its year), and the result is
\* empty whenever that monthly-generic query returns nothing.
C15_FirstLegIsMonthlyGeneric ==
  (SpreadQueried /\ IsSpreadRef(call.security))
    => /\ FirstLegQuery(call.security, call.point_in_time).rows = <<>>
            => res.rows = <<>>
       /\ res.rows # <<>>
            => LET leg == FirstLegQuery(call.security, call.point_in_time).rows[1]
               IN  /\ res.rows[1].contract1_code = leg.TFM_Code
                   /\ res.rows[1].contract1_expiry = leg.expiry_date
                   /\ res.attrs[1].leg1.code = leg.TFM_Code
                   /\ res.attrs[1].leg1.month = leg.month_name
                   /\ res.attrs[1].leg1.year = leg.contract_year

\* A spread was resolved at a date, its first leg unexpired at that date.
C15_Witness ==
  /\ SpreadQueried /\ IsSpreadRef(call.security)
  /\ call.point_in_time.kind = "date"
  /\ res.rows # <<>>
  /\ res.rows[1].contract1_expiry > ReferenceDate(call.point_in_time)

\* The months of the spread reference s = TFM<month1><month2><n>.
Month1OfRef(s) == MonthOfAbbr(SubSeq(s, 4, 6))

Month2OfRef(s) == MonthOfAbbr(SubSeq(s, 7, 9))

\* The year of leg 2 of the spread reference s whose leg 1 is of year1.
Year2OfRef(s, year1) ==
  IF MonthIndex(Month2OfRef(s)) <= MonthIndex(Month1OfRef(s)) THEN year1 + 1
  ELSE year1

\* The places in the table of the rows of month2 and of year2.
SecondLegRows(s, year1) ==
  {i \in DOMAIN df : /\ df[i].month_name = Month2OfRef(s)
                     /\ df[i].contract_year = Year2OfRef(s, year1)}

\* C16: when leg 1 of a spread resolves, leg 2 is the row of the table whose
\* month_name is month2 and whose contract_year is year2 (the first such row
\* of the table, which is the only one when month and year identify a row),
\* whatever the sequence number ranks, and the result is empty when the
\* table has no such row.
C16_SecondLegByMonthAndYear ==
  (/\ SpreadQueried /\ IsSpreadRef(call.security)
   /\ FirstLegQuery(call.security, call.point_in_time).rows # <<>>)
    => LET year1 == FirstLegQuery(call.security, call.point_in_time).rows[1].contract_year
           rows2 == SecondLegRows(call.security, year1)
       IN  IF rows2 = {} THEN res.rows = <<>>
           ELSE /\ Len(res.rows) = 1
                /\ \E i \in rows2 :
                     /\ \A j \in rows2 : i <= j
                     /\ res.rows[1].contract2_code = df[i].TFM_Code
                     /\ res.rows[1].contract2_expiry = df[i].expiry_date
                     /\ res.attrs[1].leg2.code = df[i].TFM_Code
                     /\ res.attrs[1].leg2.month = df[i].month_name
                     /\ res.attrs[1].leg2.year = df[i].contract_year

\* A spread was resolved whose leg 2 is not the contract the monthly-generic
\* query for month2 and the same sequence number returns.
C16_Witness ==
  /\ SpreadQueried /\ IsSpreadRef(call.security)
  /\ res.rows # <<>>
  /\ LET ranked == query(df, tieOrder,
                         TFM \o SubSeq(call.security, 7, 9) \o Drop(call.security, 10),
                         "monthly_generic", call.point_in_time)
     IN  /\ ranked.rows # <<>>
         /\ ranked.rows[1].TFM_Code # res.rows[1].contract2_code

\* Whether a code has the shape <prefix>\<MonthLetter><YY>: a prefix ending
\* in TFM, a backslash, one of the twelve month letters and two digits, which
\* end the code.
HasContractShape(code) ==
  /\ Len(code) >= 7
  /\ SubSeq(code, Len(code) - 6, Len(code) - 3) = TFM \o <<"\\">>
  /\ code[Len(code) - 2] \in {"F", "G", "H", "J", "K", "M", "N", "Q", "U", "V", "X", "Z"}
  /\ code[Len(code) - 1] \in Digits /\ code[Len(code)] \in Digits

\* C17: a row whose code has not the shape <prefix>\<MonthLetter><YY> has a
\* null delivery month and a null month name; no monthly-generic query
\* returns such a row, no spread has the code of such a row as a leg, and
\* the specific query for its code returns it.
C17_MalformedRows ==
  /\ \A i \in DOMAIN df :
       ~HasContractShape(df[i].TFM_Code)
         => /\ df[i].delivery_month = [month |-> Null, year |-> 0]
            /\ df[i].month_name = Null
  /\ (pc = "done" /\ (call.op = "query_monthly_generic" \/ Queried("monthly_generic")))
       => \A k \in DOMAIN res.rows : HasContractShape(res.rows[k].TFM_Code)
  /\ (SpreadQueried /\ res.rows # <<>>)
       => /\ HasContractShape(res.rows[1].contract1_code)
          /\ HasContractShape(res.rows[1].contract2_code)
  /\ (pc = "done" /\ call.op = "query_specific")
       => \A i \in DOMAIN df :
            (/\ ~HasContractShape(df[i].TFM_Code)
             /\ call.security \in {df[i].TFM_Code, df[i].TFM_Code_original})
              => df[i] \in Range(res.rows)

\* C18: for every string the monthly-generic parser accepts, the code made
\* of the month abbreviation and the sequence number it parsed is the string
\* itself, up to the case of its letters.
C18_RoundTrip ==
  (Queried("monthly_generic") /\ Parses("monthly_generic", call.security))
    => StrUpper(MonthlyCode(StrUpper(MatchMonthly(call.security)[1].month_abbr),
                            ParseInt(MatchMonthly(call.security)[1].sequence_str)))
         = StrUpper(call.security)

\* C19: when queries of several threads are interleaved, the table a query
\* read at its start is the table as it still is while the query runs, and
\* the result a query ends with is the result it returns when run alone.
C19_InterleavedQueries ==
  \A t \in Callers :
    /\ threads[t].stage \in {"copied", "leg1"} => threads[t].copy = df
    /\ threads[t].stage = "done"
         => threads[t].res = query(df, tieOrder, threads[t].call.security,
                                   threads[t].call.security_type,
                                   threads[t].call.point_in_time)

\* A spread query ended with both legs after steps of the other thread, while
\* the other thread, interleaved too, is between the legs of its own spread,
\* on a table whose rows are not in the order of their months.
C19_Witness ==
  \E t, u \in Callers :
    /\ threads[t].stage = "done" /\ threads[t].interleaved
    /\ threads[t].call.security_type = "spread" /\ threads[t].res.rows # <<>>
    /\ threads[u].stage = "leg1" /\ threads[u].interleaved
    /\ \E i, j \in DOMAIN df : i < j /\ df[i].contract_month > df[j].contract_month

\* The number of the rows of the set cand of places of the table that a sort
\* by key that keeps the order of the table among equal keys puts before
\* the row at place i.
RowsBefore(i, cand, key) ==
  Cardinality({j \in cand : \/ df[j][key] < df[i][key]
                            \/ (df[j][key] = df[i][key] /\ j < i)})

\* The places of the rows a generic query counts at the point in time p, and
\* of those a monthly-generic query for the month counts.
GenericCandidates(p) == {i \in DOMAIN df : InWindow(df[i], p)}

MonthlyCandidates(month_name, p) ==
  {i \in DOMAIN df : /\ df[i].month_name = month_name
                     /\ InWindow(df[i], p)
                     /\ p.kind # "none" => df[i].expiry_date > p.start}

\* C20: the row a generic query returns for n is the n-th of its candidates
\* by contract_month, and the row a monthly-generic query returns for n the
\* n-th of its candidates by contract_year, rows of the same key counted in
\* the order they have in the table.
C20_TiesInTableOrder ==
  /\ (Queried("generic") /\ IsGenericRef(call.security) /\ res.rows # <<>>)
       => \E i \in GenericCandidates(call.point_in_time) :
            /\ res.rows[1] = df[i]
            /\ RowsBefore(i, GenericCandidates(call.point_in_time), "contract_month")
                 = ParseInt(Drop(call.security, 4)) - 1
  /\ (Queried("monthly_generic") /\ IsMonthlyRef(call.security) /\ res.rows # <<>>)
       => \E i \in MonthlyCandidates(MonthOfRef(call.security), call.point_in_time) :
            /\ res.rows[1] = df[i]
            /\ RowsBefore(i, MonthlyCandidates(MonthOfRef(call.security),
                                               call.point_in_time), "contract_year")
                 = SeqOfRef(call.security) - 1

\* The row of the table at i is the leg of a spread record: its code, its
\* expiry, its month and the year the metadata gives the leg.
IsLegRow(i, code, expiry, month_name, leg) ==
  /\ df[i].TFM_Code = code
  /\ df[i].expiry_date = expiry
  /\ df[i].month_name = month_name
  /\ df[i].contract_year = leg.year
  /\ leg.code = code
  /\ leg.month = month_name

\* C21: every non-empty spread result is a single record: contract1_code and
\* contract1_expiry are the code and the expiry of a row of the table of the
\* first month, contract2_code and contract2_expiry those of a row of the
\* second month, spread_type is '<Mon1>-<Mon2>', and the metadata agrees with
\* the record: leg1.code and leg2.code are the codes of the record, leg1.year
\* and leg2.year the contract_year of the rows of the legs.
C21_SpreadRecord ==
  (SpreadQueried /\ ~IsEmpty(res)) =>
    /\ res.columns = SpreadColumns
    /\ Len(res.rows) = 1
    /\ Len(res.attrs) = 1
    /\ res.rows[1].spread_code = call.security
    /\ res.rows[1].spread_type
         = SubSeq(call.security, 4, 6) \o <<"-">> \o SubSeq(call.security, 7, 9)
    /\ res.attrs[1].spread_type = res.rows[1].spread_type
    /\ \E i \in DOMAIN df :
         IsLegRow(i, res.rows[1].contract1_code, res.rows[1].contract1_expiry,
                  MonthOfAbbr(SubSeq(call.security, 4, 6)), res.attrs[1].leg1)
    /\ \E j \in DOMAIN df :
         IsLegRow(j, res.rows[1].contract2_code, res.rows[1].contract2_expiry,
                  MonthOfAbbr(SubSeq(call.security, 7, 9)), res.attrs[1].leg2)

\* A spread of December and June is resolved at a date: two rows of the
\* table with two expiries are its legs.
C21_Witness ==
  /\ SpreadQueried /\ ~IsEmpty(res)
  /\ call.point_in_time.kind = "date"
  /\ res.rows[1].spread_type = <<"D", "E", "C", "-", "J", "U", "N">>
  /\ res.rows[1].contract1_expiry # res.rows[1].contract2_expiry

\* The month of a month letter: January for F, ..., December for Z.
MonthOfLetter(l) ==
  MonthNames[IndexOf(<<"F", "G", "H", "J", "K", "M", "N", "Q", "U", "V", "X", "Z">>, l)]

\* C22: parse_contract maps every code of the form <prefix>\<L><YY>, L one of
\* F, G, H, J, K, M, N, Q, U, V, X, Z, to the month at L's position and the
\* year 2000 + YY, and returns null for every code that has not this form.
C22_ParseContract ==
  \A i \in DOMAIN df :
    df[i].delivery_month
      = IF HasContractShape(df[i].TFM_Code)
          THEN [month |-> MonthOfLetter(df[i].TFM_Code[Len(df[i].TFM_Code) - 2]),
                year  |-> 2000 + ParseInt(Drop(df[i].TFM_Code, Len(df[i].TFM_Code) - 1))]
          ELSE [month |-> Null, year |-> 0]

\* A monthly-generic string TFM<letters><digits> whose letters are no month
\* abbreviation or whose digits are missing or make the number 0.
BadMonthlyRef(s) ==
  /\ StartsWith(s, TFM)
  /\ LET l    == RunLen(Drop(s, 4), Letters)
         rest == Drop(s, 4 + l)
         k    == RunLen(rest, Digits)
     IN  \/ ~IsMonthAbbr(StrUpper(SubSeq(s, 4, 3 + l)))
         \/ k = 0
         \/ ParseInt(SubSeq(rest, 1, k)) = 0

\* A spread string one of whose two month abbreviations is none of JAN..DEC.
BadSpreadRef(s) ==
  /\ StartsWith(s, TFM)
  /\ \/ Len(s) < 9
     \/ ~IsMonthAbbr(SubSeq(s, 4, 6))
     \/ ~IsMonthAbbr(SubSeq(s, 7, 9))

\* C23: a monthly-generic string whose month abbreviation is none of JAN..DEC
\* or whose sequence is no positive integer (TFMXYZ1, TFMAPR0), and a spread
\* string one of whose month abbreviations is none of JAN..DEC, resolves to
\* no contract: the result has no row, for every table and point in time.
C23_BadMonthOrSequence ==
  /\ (Queried("monthly_generic") /\ BadMonthlyRef(call.security))
       => res.rows = <<>> /\ res.raised = ""
  /\ (SpreadQueried /\ BadSpreadRef(call.security))
       => res.rows = <<>> /\ res.raised = ""

\* The contract 0 of April was asked for at a date on a table with a row of
\* April that has not expired, and no row was returned.
C23_Witness ==
  /\ Queried("monthly_generic")
  /\ call.security = <<"T", "F", "M", "A", "P", "R", "0">>
  /\ call.point_in_time.kind = "date"
  /\ \E i \in DOMAIN df :
       /\ df[i].month_name = "April"
       /\ df[i].expiry_date > call.point_in_time.start
  /\ res.rows = <<>>

\* The bars of the price series asked for that carry the code c.
SeriesOf(c) ==
  {b \in Range(IntradayData[call.sequence_number]) : b.symbol = c}

\* The row is the bar of the spread of the bars b1 and b2 of the two legs:
\* each price the first leg's minus the second's, the volume their mean.
IsSpreadBarOf(row, b1, b2) ==
  /\ row.Timestamp = b1.Timestamp /\ row.Timestamp = b2.Timestamp
  /\ row.OPEN = b1.OPEN - b2.OPEN
  /\ row.HIGH = b1.HIGH - b2.HIGH
  /\ row.LOW = b1.LOW - b2.LOW
  /\ row.CLOSE = b1.CLOSE - b2.CLOSE
  /\ row.VOLUME = [num |-> b1.VOLUME + b2.VOLUME, den |-> 2]

\* The prices of the spread with the legs of the codes c1 and c2: one bar for
\* each timestamp of both series, and none when they share no timestamp.
IsSpreadSeries(c1, c2) ==
  LET shared == {b.Timestamp : b \in SeriesOf(c1)}
                  \cap {b.Timestamp : b \in SeriesOf(c2)}
  IN  IF shared = {} THEN res = EmptyFrame
      ELSE /\ Len(res.rows) = Cardinality(shared)
           /\ \A t \in shared :
                \E k \in DOMAIN res.rows, b1 \in SeriesOf(c1), b2 \in SeriesOf(c2) :
                  b1.Timestamp = t /\ IsSpreadBarOf(res.rows[k], b1, b2)

\* The spread result the prices were asked for.
PricedSpread == query(df, tieOrder, call.security, "spread", call.point_in_time)

\* C24: get_spread_prices returns one bar for exactly the timestamps of both
\* legs' price series, OPEN, HIGH, LOW and CLOSE each the first leg's minus
\* the second's at that timestamp and VOLUME (vol1 + vol2) / 2; it returns an
\* empty result when the spread result is empty, when a leg has no bar or
\* when the legs share no timestamp.
C24_SpreadPrices ==
  (pc = "done" /\ call.op = "get_spread_prices") =>
    IF IsEmpty(PricedSpread) THEN res = EmptyFrame
    ELSE IsSpreadSeries(PricedSpread.rows[1].contract1_code,
                        PricedSpread.rows[1].contract2_code)

\* The prices of a spread were returned, and the first leg has a bar at a
\* timestamp at which the second leg has none.
C24_Witness ==
  /\ pc = "done" /\ call.op = "get_spread_prices"
  /\ res.rows # <<>>
  /\ \E b \in SeriesOf(res.rows[1].contract1_code) :
       \A k \in DOMAIN res.rows : res.rows[k].Timestamp # b.Timestamp

\* C25: a specific query with a point in time applies the expiry filter
\* before it matches the code: query(c, specific, t) returns the rows of code
\* c whose expiry_date >= t (within [start, end] for a range), and nothing for
\* a code of the table that expired before t; without a point in time it
\* returns the rows of the code.
C25_SpecificAtPointInTime ==
  Queried("specific") =>
    \A i \in DOMAIN df :
      call.security \in {df[i].TFM_Code, SourcePrefix \o df[i].TFM_Code}
        => res.rows
             = IF call.point_in_time.kind = "none" THEN RowsOfCode(df[i].TFM_Code)
               ELSE SelectSeq(RowsOfCode(df[i].TFM_Code),
                              LAMBDA r : InWindow(r, call.point_in_time))

\* A code of the table was asked for at a date after its expiry, and nothing
\* was returned.
C25_Witness ==
  /\ Queried("specific")
  /\ call.point_in_time.kind = "date"
  /\ res.rows = <<>>
  /\ \E i \in DOMAIN df :
       /\ call.security = df[i].TFM_Code
       /\ df[i].expiry_date < call.point_in_time.start

InsideRange(month_name, p) ==
  {i \in DOMAIN df : /\ df[i].month_name = month_name
                     /\ p.start < df[i].expiry_date
                     /\ df[i].expiry_date <= p.end}

\* C27: a monthly-generic query with a range (start, end) takes start as the
\* reference date and end as an upper bound: every returned row has
\* start < expiry_date <= end, and the sequence number counts, by
\* contract_year, only the rows of the month inside that window.
C27_MonthlyInRange ==
  (/\ Queried("monthly_generic") /\ call.point_in_time.kind = "range"
   /\ IsMonthlyRef(call.security))
    => LET inside == InsideRange(MonthOfRef(call.security), call.point_in_time)
           n      == SeqOfRef(call.security)
       IN  /\ Len(res.rows) = IF n <= Cardinality(inside) THEN 1 ELSE 0
           /\ \A k \in DOMAIN res.rows :
                \E i \in inside :
                  /\ res.rows[k] = df[i]
                  /\ Cardinality({j \in inside :
                        df[j].contract_year < df[i].contract_year}) < n
                  /\ n <= Cardinality({j \in inside :
                        df[j].contract_year <= df[i].contract_year})

\* The first contract of a month was asked for in a range and the row that
\* expires on the end of the range was returned, the table holding a row of
\* the month that expires after the end.
C27_Witness ==
  /\ Queried("monthly_generic") /\ call.point_in_time.kind = "range"
  /\ IsMonthlyRef(call.security)
  /\ res.rows # <<>>
  /\ res.rows[1].expiry_date = call.point_in_time.end
  /\ \E i \in DOMAIN df :
       /\ df[i].month_name = res.rows[1].month_name
       /\ df[i].expiry_date > call.point_in_time.end

\* A string that is no reference of the kind k as a whole and starts with
\* one: a reference with more characters after its sequence number.
HasTrailingCharacters(k, s) ==
  /\ ~IsRef(k, s)
  /\ \E n \in 1 .. (Len(s) - 1) : IsRef(k, SubSeq(s, 1, n))

\* C28: a reference string resolves only when the whole of it matches the
\* grammar of its kind: a generic, monthly-generic or spread string with more
\* characters after the sequence number ('TFM1X', 'TFMAPR1X', 'TFMDECJUN1X')
\* yields the empty result, not the result of the reference it starts with.
C28_WholeStringMatches ==
  \A k \in {"generic", "monthly_generic", "spread"} :
    (Queried(k) /\ HasTrailingCharacters(k, call.security))
      => res.rows = <<>>

====
